---------------------------- MODULE Spec2Model ----------------------------
(***************************************************************************)
(* dbt-model-diff: the diff flow run_diff (core/diff_flow.py) over the     *)
(* Redshift warehouse adapter (adapters/redshift.py), with the helpers of  *)
(* core/util.py.                                                           *)
(*                                                                         *)
(* A SQL value is represented by its text form: NULL is the empty tuple    *)
(* and a non-NULL value is the one-element tuple holding the text that the *)
(* cast to varchar yields.  A row is a function from column names to       *)
(* values; a table is a column list in ordinal position order, each column *)
(* with its data type, and a sequence of rows.  md5 is kept as an          *)
(* injective tag over its input text.  A float is kept as the exact        *)
(* fraction it approximates.                                               *)
(***************************************************************************)
EXTENDS Integers, Sequences, FiniteSets, TLC

VARIABLES pc, args, faults, wh, fs, loc, result, outcome, error, caller, queries,
          steps

vars == <<pc, args, faults, wh, fs, loc, result, outcome, error, caller, queries,
          steps>>

-----------------------------------------------------------------------------
(* Values, rows, tables *)

NULL == <<>>

Txt(s) == <<s>>

IsNull(v) == v = NULL

None == <<>>

Some(x) == <<x>>

Absent == [cols |-> <<>>, rows |-> <<>>, exists |-> FALSE]

Table(cols, rows) == [cols |-> cols, rows |-> rows, exists |-> TRUE]

TextCol(c) == [name |-> c, data_type |-> "character varying"]

BoolCol(c) == [name |-> c, data_type |-> "boolean"]

ColNames(t) == {t.cols[i].name : i \in 1..Len(t.cols)}

Range(s) == {s[i] : i \in 1..Len(s)}

\* [c for c in xs if c in keep], the list comprehension of diff_flow.py
Keep(xs, keep) == SelectSeq(xs, LAMBDA c : c \in keep)

Drop(xs, drop) == SelectSeq(xs, LAMBDA c : c \notin drop)

-----------------------------------------------------------------------------
(* core/util.py *)

RECURSIVE Gcd(_, _)
Gcd(a, b) == IF b = 0 THEN a ELSE Gcd(b, a % b)

\* the fraction num/den in lowest terms (den > 0)
Frac(num, den) == LET g == Gcd(num, den) IN
                  IF num = 0 THEN [num |-> 0, den |-> 1]
                  ELSE [num |-> num \div g, den |-> den \div g]

\* return 0.0 if d == 0 else (n / d) * 100.0
pct(n, d) == IF d = 0 THEN Frac(0, 1) ELSE Frac(n * 100, d)

\* A text is kept as the sequence of its characters where the program works
\* on the characters.

Lowers == <<"a", "b", "c", "d", "e", "f", "g", "h", "i", "j", "k", "l", "m",
            "n", "o", "p", "q", "r", "s", "t", "u", "v", "w", "x", "y", "z">>

Uppers == <<"A", "B", "C", "D", "E", "F", "G", "H", "I", "J", "K", "L", "M",
            "N", "O", "P", "Q", "R", "S", "T", "U", "V", "W", "X", "Y", "Z">>

Digits == <<"0", "1", "2", "3", "4", "5", "6", "7", "8", "9">>

\* [a-zA-Z0-9_]
IsWordChar(c) ==
    c \in Range(Lowers) \cup Range(Uppers) \cup Range(Digits) \cup {"_"}

\* str.lower()
lower(s) ==
    [i \in 1..Len(s) |->
        IF \E k \in 1..Len(Uppers) : Uppers[k] = s[i]
        THEN Lowers[CHOOSE k \in 1..Len(Uppers) : Uppers[k] = s[i]]
        ELSE s[i]]

RECURSIVE SkipNonWord(_)
SkipNonWord(s) ==
    IF s = <<>> \/ IsWordChar(Head(s)) THEN s ELSE SkipNonWord(Tail(s))

\* re.sub(r"[^a-zA-Z0-9_]+", "_", value): each longest run of other
\* characters becomes one underscore
RECURSIVE re_sub(_)
re_sub(value) ==
    IF value = <<>> THEN <<>>
    ELSE IF IsWordChar(Head(value)) THEN <<Head(value)>> \o re_sub(Tail(value))
    ELSE <<"_">> \o re_sub(SkipNonWord(Tail(value)))

\* s[:n]
Take(s, n) == SubSeq(s, 1, IF n <= Len(s) THEN n ELSE Len(s))

\* def sanitize_ident(value, max_len = 60)
max_len == 60

sanitize_ident(value, n) == Take(lower(re_sub(value)), n)

-----------------------------------------------------------------------------
(* SQL evaluation used by the adapter's queries *)

\* The caller-supplied predicate: None, or the text  "col" = 'val'
Pred(col, val) == [col |-> col, val |-> val]

\* (select * from <rel> where <where>) can be run: the relation exists and
\* the predicate names a column of it
SubValid(t, where) == t.exists /\ (where = None \/ where.col \in ColNames(t))

\* a comparison with NULL is not true, so a NULL never satisfies the predicate
Satisfies(row, where) == where = None \/ row[where.col] = Txt(where.val)

\* base_sub / head_sub: f"(select * from {rel}{predicate})"
Sub(t, where) == SelectSeq(t.rows, LAMBDA r : Satisfies(r, where))

KeysEqual_FirstKeyOnly(b, h, key_cols) ==
    ~IsNull(b[key_cols[1]]) /\ b[key_cols[1]] = h[key_cols[1]]

\* b.k = h.k for every key column: true only of non-NULL equal values
KeysEqual(b, h, key_cols) ==
    \A i \in 1..Len(key_cols) :
        ~IsNull(b[key_cols[i]]) /\ b[key_cols[i]] = h[key_cols[i]]

\* L left join R on <join_on>: a pair <<i, j>> per match, and <<i, 0>> (the
\* right side all NULL) for a left row without any match
LeftJoin(L, R, key_cols) ==
    {p \in (1..Len(L)) \X (0..Len(R)) :
        IF p[2] = 0
        THEN \A j \in 1..Len(R) : ~KeysEqual(R[j], L[p[1]], key_cols)
        ELSE KeysEqual(R[p[2]], L[p[1]], key_cols)}

\* select count(*) from L left join R on ... where R.first_key is null
AntiJoinCount(L, R, key_cols) ==
    Cardinality({p \in LeftJoin(L, R, key_cols) :
                     p[2] = 0 \/ IsNull(R[p[2]][key_cols[1]])})

-----------------------------------------------------------------------------
(* adapters/redshift.py *)

DQ == "\""

\* ident.replace('"', '""')
RECURSIVE DoubleQuotes(_)
DoubleQuotes(ident) ==
    IF ident = <<>> THEN <<>>
    ELSE (IF Head(ident) = DQ THEN <<DQ, DQ>> ELSE <<Head(ident)>>)
             \o DoubleQuotes(Tail(ident))

quote_ident_NoDoubling(ident) == <<DQ>> \o ident \o <<DQ>>

\* '"' + ident.replace('"', '""') + '"'
quote_ident(ident) == <<DQ>> \o DoubleQuotes(ident) \o <<DQ>>

\* the text between the quotes of a quoted identifier, read up to its closing
\* quote: the name it stands for, or None when the identifier ends before
\* the text does or never ends
RECURSIVE ReadQuoted(_, _)
ReadQuoted(s, acc) ==
    IF s = <<>> THEN None
    ELSE IF Head(s) # DQ THEN ReadQuoted(Tail(s), Append(acc, Head(s)))
    ELSE IF Len(s) >= 2 /\ s[2] = DQ THEN ReadQuoted(Tail(Tail(s)), Append(acc, DQ))
    ELSE IF Len(s) = 1 THEN Some(acc)
    ELSE None

\* the identifier the warehouse reads in a piece of SQL text: a quoted one as
\* written, an unquoted one folded to lower case; None if the text is not
\* one identifier
ReadIdent(text) ==
    IF text = <<>> THEN None
    ELSE IF Head(text) = DQ THEN ReadQuoted(Tail(text), <<>>)
    ELSE IF \A i \in 1..Len(text) : IsWordChar(text[i]) THEN Some(lower(text))
    ELSE None

\* one place of a statement where an identifier is written: the name meant
\* and the text put into the statement
Q(name) == [name |-> name, text |-> quote_ident(name)]

\* f"{q(schema)}.{q(table)}"
rel_sql(schema, table) == <<Q(schema), Q(table)>>

RECURSIVE Flatten(_)
Flatten(ss) == IF ss = <<>> THEN <<>> ELSE Head(ss) \o Flatten(Tail(ss))

\* the identifiers written into each statement of the adapter, in text order
ensure_schema_sql(schema) == <<Q(schema)>>

drop_schema_sql(schema) == <<Q(schema)>>

ctas_copy_sql(src_schema, src_table, dst_schema, dst_table) ==
    rel_sql(dst_schema, dst_table) \o rel_sql(dst_schema, dst_table)
        \o rel_sql(src_schema, src_table)

\* list_columns passes schema and table as query parameters
list_columns_sql(schema, table) == <<>>

column_profile_sql(schema, table, cols) ==
    Flatten([i \in 1..Len(cols) |->
                <<Q(cols[i]), Q(cols[i] \o <<"_", "_", "n", "u", "l", "l", "s">>),
                  Q(cols[i]),
                  Q(cols[i] \o <<"_", "_", "d", "i", "s", "t", "i", "n", "c", "t">>)>>])
        \o rel_sql(schema, table)

build_row_hash_expr_sql(cols) == [i \in 1..Len(cols) |-> Q(cols[i])]

\* svv_columns, data_type != 'boolean', order by ordinal_position
list_columns(t) ==
    LET kept == SelectSeq(t.cols, LAMBDA c : c.data_type # "boolean")
    IN  [i \in 1..Len(kept) |-> kept[i].name]

rowcount_NoPredicate(t, where) == Len(t.rows)

\* select count(*) from <relation_sql> t
rowcount(t, where) == Len(Sub(t, where))

\* the one row the profile query returns: for the i-th column, position 2i-1
\* holds sum(case when c is null then 1 else 0 end), which is NULL over no
\* rows, and position 2i holds count(distinct c)
ProfileRow(t, cols) ==
    [p \in 1..(2 * Len(cols)) |->
        LET c == cols[(p + 1) \div 2] IN
        IF p % 2 = 1
        THEN IF t.rows = <<>> THEN None
             ELSE Some(Cardinality({i \in 1..Len(t.rows) : IsNull(t.rows[i][c])}))
        ELSE Some(Cardinality({t.rows[i][c] : i \in 1..Len(t.rows)} \ {NULL}))]

\* int(row[idx]) raises on None
column_profile_raises(t, cols) ==
    cols # <<>> /\ \E p \in 1..(2 * Len(cols)) : ProfileRow(t, cols)[p] = None

column_profile(t, cols) ==
    IF cols = <<>> THEN <<>>
    ELSE LET row == ProfileRow(t, cols) IN
         [c \in Range(cols) |->
            LET i == CHOOSE k \in 1..Len(cols) : cols[k] = c IN
            [nulls |-> row[2 * i - 1][1], distinct |-> row[2 * i][1]]]

Lit(text) == [kind |-> "lit", col |-> "", text |-> text]

\* coalesce("c"::varchar,'<NULL>')
Coalesce(c) == [kind |-> "coalesce", col |-> c, text |-> "<NULL>"]

\* " || '|' || ".join(parts)
RECURSIVE JoinParts(_)
JoinParts(parts) ==
    IF Len(parts) <= 1 THEN parts
    ELSE <<Head(parts), Lit("|")>> \o JoinParts(Tail(parts))

build_row_hash_expr_NoEmptyCase(cols) ==
    [md5 |-> JoinParts([i \in 1..Len(cols) |-> Coalesce(cols[i])])]

\* the expression md5(p1 || '|' || p2 ...), or md5('') for no columns
build_row_hash_expr(cols) ==
    IF cols = <<>> THEN [md5 |-> <<Lit("")>>]
    ELSE [md5 |-> JoinParts([i \in 1..Len(cols) |-> Coalesce(cols[i])])]

\* the text one operand of || yields for a row
TermText(term, row) ==
    IF term.kind = "lit" THEN term.text
    ELSE IF IsNull(row[term.col]) THEN term.text ELSE row[term.col][1]

RECURSIVE ConcatText(_, _)
ConcatText(terms, row) ==
    IF terms = <<>> THEN ""
    ELSE TermText(Head(terms), row) \o ConcatText(Tail(terms), row)

\* the text handed to md5 for a row
HashInput(expr, row) == ConcatText(expr.md5, row)

\* <hash expr> as row_hash
RowHash(expr, row) == <<"md5", HashInput(expr, row)>>

\* base_h b join head_h h using (keys) where b.row_hash <> h.row_hash
ChangedPairs(B, H, key_cols, base_hash, head_hash) ==
    {p \in (1..Len(B)) \X (1..Len(H)) :
        /\ KeysEqual(B[p[1]], H[p[2]], key_cols)
        /\ RowHash(base_hash, B[p[1]]) # RowHash(head_hash, H[p[2]])}

\* the b.<key> tuple selected for a joined pair
KeyTuple(row, key_cols) == [i \in 1..Len(key_cols) |-> row[key_cols[i]]]

-----------------------------------------------------------------------------
(* core/diff_flow.py: run_diff *)

Rels == {"src", "base", "head"}

base_rel == wh.rel["base"]

head_rel == wh.rel["head"]

\* base_sub = f"(select * from {base_rel}{predicate})"
base_sub == Sub(base_rel, args.where)

head_sub == Sub(head_rel, args.where)

\* run_id = sanitize_ident(f"{model}_{base_ref}_{head_ref}")
run_id(model, base_ref, head_ref) ==
    sanitize_ident(model \o <<"_">> \o base_ref \o <<"_">> \o head_ref, max_len)

\* diff_schema = f"dbt_model_diff__{run_id}"
diff_schema(rid) ==
    <<"d", "b", "t", "_", "m", "o", "d", "e", "l", "_", "d", "i", "f", "f", "_", "_">>
        \o rid

\* base_table = f"{sanitize_ident(model)}__base"
base_table(model) == sanitize_ident(model, max_len) \o <<"_", "_", "b", "a", "s", "e">>

head_table(model) == sanitize_ident(model, max_len) \o <<"_", "_", "h", "e", "a", "d">>

\* the names one run works under
RunNames(r) ==
    [run_id |-> run_id(r.model, r.base_ref, r.head_ref),
     diff_schema |-> diff_schema(run_id(r.model, r.base_ref, r.head_ref)),
     base_table |-> base_table(r.model),
     head_table |-> head_table(r.model)]

\* the result dict as first built, before the try block
InitialResult(a) ==
    [meta |-> [mode |-> IF a.key_cols # <<>> THEN "FULL_DIFF" ELSE "STATS_ONLY",
               keys |-> a.key_cols],
     rowcounts |-> <<>>,
     schema_diff |-> [only_in_base |-> <<>>, only_in_head |-> <<>>, common |-> <<>>],
     column_profile |-> <<>>,
     row_diff |-> None]

InitialLocals ==
    [base_count |-> 0, head_count |-> 0,
     head_cols |-> <<>>, base_cols |-> <<>>, common_cols |-> <<>>,
     non_key_cols |-> <<>>, base_hash |-> None, head_hash |-> None,
     added |-> 0, removed |-> 0, changed |-> 0]

\* the temp directory and the two worktrees under it
NoWorktrees == [tmp |-> FALSE, base |-> FALSE, head |-> FALSE]

\* run_diff once adapter.connect has returned: connection open, nothing made
\* or built yet.  F holds the sets of steps that fail in a run for
\* reasons outside the program (git, dbt, the warehouse, the file system).
InitWith(A, F) ==
    /\ args \in A
    /\ faults \in F
    /\ pc = "mkdtemp"
    /\ wh = [schema |-> FALSE, rel |-> [r \in Rels |-> Absent]]
    /\ fs = NoWorktrees
    /\ loc = InitialLocals
    /\ result = InitialResult(args)
    /\ outcome = "running"
    /\ error = None
    /\ caller = None
    /\ queries = <<>>
    /\ steps = <<"connect">>

\* the step fails in this run
Fails(step) == step \in faults

RaiseIn_ReturnsResult(step, qs, w, f) ==
    /\ pc' = "cleanup"
    /\ outcome' = "returned"
    /\ error' = None
    /\ queries' = queries \o qs
    /\ wh' = w
    /\ fs' = f
    /\ UNCHANGED <<args, faults, result, caller>>

\* an exception of `step` leaves the try block for the finally block, the
\* warehouse and the worktrees being as the step left them
RaiseIn(step, qs, w, f) ==
    /\ pc' = "cleanup"
    /\ outcome' = "raised"
    /\ error' = Some(step)
    /\ queries' = queries \o qs
    /\ wh' = w
    /\ fs' = f
    /\ UNCHANGED <<args, faults, result, caller>>

Raise(step, qs) == RaiseIn(step, qs, wh, fs)

\* tmp_dir = Path(tempfile.mkdtemp(...)), before the try block: its exception
\* leaves run_diff at once, past the finally block
MakeTmp ==
    /\ pc = "mkdtemp"
    /\ steps' = Append(steps, "mkdtemp")
    /\ IF Fails("mkdtemp")
       THEN /\ pc' = "done"
            /\ outcome' = "raised"
            /\ error' = Some("mkdtemp")
            /\ caller' = Some([kind |-> "error", error |-> Some("mkdtemp")])
            /\ UNCHANGED <<args, faults, wh, fs, loc, result, queries>>
       ELSE /\ fs' = [fs EXCEPT !.tmp = TRUE]
            /\ pc' = "ensure_schema"
            /\ UNCHANGED <<args, faults, wh, loc, result, outcome, error, caller,
                           queries>>

\* adapter.ensure_schema(conn, diff_schema)
EnsureSchema ==
    /\ pc = "ensure_schema"
    /\ steps' = Append(steps, "ensure_schema")
    /\ IF Fails("ensure_schema")
       THEN Raise("ensure_schema", <<"ensure_schema">>) /\ UNCHANGED loc
       ELSE /\ wh' = [wh EXCEPT !.schema = TRUE]
            /\ queries' = Append(queries, "ensure_schema")
            /\ pc' = "worktrees"
            /\ UNCHANGED <<args, faults, fs, error, caller, loc, result, outcome>>

\* git worktree add, for base and then for head
AddWorktrees ==
    /\ pc = "worktrees"
    /\ steps' = steps \o (IF Fails("worktree_base") THEN <<"worktree_base">>
                        ELSE <<"worktree_base", "worktree_head">>)
    /\ IF Fails("worktree_base")
       THEN Raise("worktree_base", <<>>) /\ UNCHANGED loc
       ELSE IF Fails("worktree_head")
       THEN /\ RaiseIn("worktree_head", <<>>, wh, [fs EXCEPT !.base = TRUE])
            /\ UNCHANGED loc
       ELSE /\ fs' = [fs EXCEPT !.base = TRUE, !.head = TRUE]
            /\ pc' = "build_base"
            /\ UNCHANGED <<args, faults, error, caller, wh, loc, result, outcome, queries>>

Build_ContinuesOnFailure(side, outputs) ==
    /\ pc = "build_" \o side
    /\ steps' = Append(steps, "build_" \o side)
    /\ \E t \in (IF Fails("build_" \o side) THEN {wh.rel["src"]} ELSE outputs) :
          wh' = [wh EXCEPT !.rel["src"] = t]
    /\ pc' = "resolve_" \o side
    /\ UNCHANGED <<args, faults, fs, error, caller, loc, result, outcome, queries>>

\* dbt_build of one revision materialises the model's relation; the relation
\* it leaves is one of `outputs`
Build(side, outputs) ==
    /\ pc = "build_" \o side
    /\ steps' = Append(steps, "build_" \o side)
    /\ IF Fails("build_" \o side)
       THEN Raise("build_" \o side, <<>>) /\ UNCHANGED loc
       ELSE /\ \E t \in outputs : wh' = [wh EXCEPT !.rel["src"] = t]
            /\ pc' = "resolve_" \o side
            /\ UNCHANGED <<args, faults, fs, error, caller, loc, result, outcome, queries>>

\* get_model_node, relation_name, parse_relation_name_pg
Resolve(side) ==
    /\ pc = "resolve_" \o side
    /\ steps' = Append(steps, "resolve_" \o side)
    /\ IF Fails("resolve_" \o side)
       THEN Raise("resolve_" \o side, <<>>) /\ UNCHANGED loc
       ELSE /\ pc' = "copy_" \o side
            /\ UNCHANGED <<args, faults, fs, error, caller, wh, loc, result, outcome, queries>>

\* drop table if exists dst
drop_table_if_exists(w, dst) == [w EXCEPT !.rel[dst] = Absent]

\* create table dst as select * from src: the statement fails, and changes
\* nothing, when a relation of that name exists
create_table_as(w, src, dst) ==
    IF w.rel[dst].exists THEN w ELSE [w EXCEPT !.rel[dst] = w.rel[src]]

ctas_copy_NoDrop(w, src, dst) == create_table_as(w, src, dst)

\* adapter.ctas_copy: drop table if exists dst; create table dst as
\* select * from src
ctas_copy(w, src, dst) == create_table_as(drop_table_if_exists(w, dst), src, dst)

\* a copy whose create statement fails has dropped the destination
Copy(side, next) ==
    /\ pc = "copy_" \o side
    /\ steps' = Append(steps, "copy_" \o side)
    /\ IF Fails("copy_" \o side)
       THEN /\ RaiseIn("copy_" \o side, <<"ctas_copy">>,
                       [wh EXCEPT !.rel[side] = Absent], fs)
            /\ UNCHANGED loc
       ELSE /\ wh' = ctas_copy(wh, "src", side)
            /\ queries' = Append(queries, "ctas_copy")
            /\ pc' = next
            /\ UNCHANGED <<args, faults, fs, error, caller, loc, result, outcome>>

\* base_count / head_count = adapter.rowcount(conn, base_sub / head_sub)
RowCounts ==
    /\ pc = "rowcount"
    /\ steps' = steps \o (IF ~SubValid(base_rel, args.where) THEN <<"rowcount_base">>
                        ELSE <<"rowcount_base", "rowcount_head">>)
    /\ IF ~SubValid(base_rel, args.where)
       THEN Raise("rowcount", <<"rowcount">>) /\ UNCHANGED loc
       ELSE IF ~SubValid(head_rel, args.where)
       THEN /\ Raise("rowcount", <<"rowcount", "rowcount">>)
            /\ loc' = [loc EXCEPT !.base_count = rowcount(base_rel, args.where)]
       ELSE /\ loc' = [loc EXCEPT !.base_count = rowcount(base_rel, args.where),
                                  !.head_count = rowcount(head_rel, args.where)]
            /\ result' = [result EXCEPT !.rowcounts =
                             [base |-> rowcount(base_rel, args.where),
                              head |-> rowcount(head_rel, args.where)]]
            /\ queries' = queries \o <<"rowcount", "rowcount">>
            /\ pc' = "list_columns"
            /\ UNCHANGED <<args, faults, fs, error, caller, wh, outcome>>

schema_diff_Swapped(head_cols, base_cols) ==
    [only_in_base |-> Drop(head_cols, Range(base_cols)),
     only_in_head |-> Drop(base_cols, Range(head_cols)),
     common |-> Keep(base_cols, Range(head_cols))]

\* common_cols, only_in_head, only_in_base
schema_diff(head_cols, base_cols) ==
    [only_in_base |-> Drop(base_cols, Range(head_cols)),
     only_in_head |-> Drop(head_cols, Range(base_cols)),
     common |-> Keep(head_cols, Range(base_cols))]

ListColumns ==
    /\ pc = "list_columns"
    /\ steps' = steps \o <<"list_columns_head", "list_columns_base">>
    /\ LET hc == list_columns(head_rel)
           bc == list_columns(base_rel)
           sd == schema_diff(hc, bc)
       IN  /\ loc' = [loc EXCEPT !.head_cols = hc, !.base_cols = bc,
                                 !.common_cols = sd.common]
           /\ result' = [result EXCEPT !.schema_diff = sd]
    /\ queries' = queries \o <<"list_columns", "list_columns">>
    /\ pc' = "profile"
    /\ UNCHANGED <<args, faults, fs, error, caller, wh, outcome>>

side_profile(p, count) ==
    [nulls |-> p.nulls, distinct |-> p.distinct,
     null_pct |-> pct(p.nulls, count), uniq_pct |-> pct(p.distinct, count)]

col_out_Combined(base_prof, head_prof, base_count, head_count, cols) ==
    [c \in Range(cols) |->
        [base |-> side_profile(base_prof[c], base_count + head_count),
         head |-> side_profile(head_prof[c], base_count + head_count)]]

\* col_out[col] = {"base": {...}, "head": {...}}
col_out(base_prof, head_prof, base_count, head_count, cols) ==
    [c \in Range(cols) |->
        [base |-> side_profile(base_prof[c], base_count),
         head |-> side_profile(head_prof[c], head_count)]]

ColumnProfile ==
    /\ pc = "profile"
    /\ steps' = steps \o (IF ~(args.col_stats /\ loc.common_cols # <<>>) THEN <<>>
                        ELSE IF column_profile_raises(base_rel, loc.common_cols)
                        THEN <<"column_profile_base">>
                        ELSE <<"column_profile_base", "column_profile_head">>)
    /\ IF args.col_stats /\ loc.common_cols # <<>>
       THEN IF column_profile_raises(base_rel, loc.common_cols)
            THEN Raise("column_profile", <<"column_profile">>) /\ UNCHANGED loc
            ELSE IF column_profile_raises(head_rel, loc.common_cols)
            THEN Raise("column_profile", <<"column_profile", "column_profile">>) /\ UNCHANGED loc
            ELSE /\ result' = [result EXCEPT !.column_profile =
                                  col_out(column_profile(base_rel, loc.common_cols),
                                          column_profile(head_rel, loc.common_cols),
                                          loc.base_count, loc.head_count,
                                          loc.common_cols)]
                 /\ queries' = queries \o <<"column_profile", "column_profile">>
                 /\ pc' = "keys"
                 /\ UNCHANGED <<args, faults, fs, error, caller, wh, loc, outcome>>
       ELSE /\ pc' = "keys"
            /\ UNCHANGED <<args, faults, fs, error, caller, wh, loc, result, outcome, queries>>

StatsOnlyReturn_EmptyRowDiff ==
    /\ pc = "keys"
    /\ steps' = steps
    /\ args.key_cols = <<>>
    /\ pc' = "cleanup"
    /\ outcome' = "returned"
    /\ result' = [result EXCEPT !.row_diff = [added |-> 0, removed |-> 0,
                                              changed |-> 0, sample_keys |-> <<>>]]
    /\ UNCHANGED <<args, faults, fs, error, caller, wh, loc, queries>>

\* if not key_cols: return result
StatsOnlyReturn ==
    /\ pc = "keys"
    /\ steps' = steps
    /\ args.key_cols = <<>>
    /\ pc' = "cleanup"
    /\ outcome' = "returned"
    /\ UNCHANGED <<args, faults, fs, error, caller, wh, loc, result, queries>>

\* the join names every key column on both sides
KeysValid(key_cols) ==
    /\ Range(key_cols) \subseteq ColNames(base_rel)
    /\ Range(key_cols) \subseteq ColNames(head_rel)

non_key_cols_All(common_cols, key_cols) == common_cols

\* [c for c in common_cols if c not in set(key_cols)]
non_key_cols(common_cols, key_cols) == Drop(common_cols, Range(key_cols))

added_NoFilter(H, B, key_cols) == Cardinality(LeftJoin(H, B, key_cols))

\* head_sub h left join base_sub b on ... where b.first_key is null
added_count(H, B, key_cols) == AntiJoinCount(H, B, key_cols)

removed_Swapped(B, H, key_cols) == AntiJoinCount(H, B, key_cols)

\* base_sub b left join head_sub h on ... where h.first_key is null
removed_count(B, H, key_cols) == AntiJoinCount(B, H, key_cols)

\* non_key_cols, base_hash and head_hash, then the added query
AddedQuery ==
    /\ pc = "keys"
    /\ steps' = Append(steps, "added")
    /\ args.key_cols # <<>>
    /\ LET nk == non_key_cols(loc.common_cols, args.key_cols)
           l1 == [loc EXCEPT !.non_key_cols = nk,
                             !.base_hash = build_row_hash_expr(nk),
                             !.head_hash = build_row_hash_expr(nk)]
       IN  IF ~KeysValid(args.key_cols)
           THEN Raise("added", <<"added">>) /\ loc' = l1
           ELSE /\ loc' = [l1 EXCEPT !.added =
                              added_count(head_sub, base_sub,
                                          args.key_cols)]
                /\ queries' = Append(queries, "added")
                /\ pc' = "removed"
                /\ UNCHANGED <<args, faults, fs, error, caller, wh, result, outcome>>

RemovedQuery ==
    /\ pc = "removed"
    /\ steps' = Append(steps, "removed")
    /\ loc' = [loc EXCEPT !.removed = removed_count(base_sub, head_sub, args.key_cols)]
    /\ queries' = Append(queries, "removed")
    /\ pc' = "changed"
    /\ UNCHANGED <<args, faults, fs, error, caller, wh, result, outcome>>

changed_pairs_AllJoined ==
    {p \in (1..Len(base_sub)) \X (1..Len(head_sub)) :
        KeysEqual(base_sub[p[1]], head_sub[p[2]], args.key_cols)}

\* the pairs of the changed query and of the sample query
changed_pairs ==
    ChangedPairs(base_sub, head_sub, args.key_cols, loc.base_hash, loc.head_hash)

ChangedQuery ==
    /\ pc = "changed"
    /\ steps' = Append(steps, "changed")
    /\ loc' = [loc EXCEPT !.changed = Cardinality(changed_pairs)]
    /\ queries' = Append(queries, "changed")
    /\ pc' = "sample"
    /\ UNCHANGED <<args, faults, fs, error, caller, wh, result, outcome>>

Min(a, b) == IF a <= b THEN a ELSE b

SampleResults_NoLimit(limit) ==
    LET n == Cardinality(changed_pairs)
    IN  {[i \in 1..n |-> KeyTuple(base_sub[ps[i][1]], args.key_cols)] :
            ps \in {f \in [1..n -> changed_pairs] :
                       \A i, j \in 1..n : i # j => f[i] # f[j]}}

\* the sample query returns, in an order the warehouse chooses, the key tuples
\* of `limit` joined pairs, or of all of them when there are fewer
SampleResults(limit) ==
    LET n == Min(limit, Cardinality(changed_pairs))
    IN  {[i \in 1..n |-> KeyTuple(base_sub[ps[i][1]], args.key_cols)] :
            ps \in {f \in [1..n -> changed_pairs] :
                       \A i, j \in 1..n : i # j => f[i] # f[j]}}

row_diff(added, removed, changed, sample_keys) ==
    [added |-> added, removed |-> removed, changed |-> changed,
     sample_keys |-> sample_keys]

\* if changed and sample > 0: the sample query; then row_diff and return
SampleAndReturn ==
    /\ pc = "sample"
    /\ steps' = steps \o (IF loc.changed # 0 /\ args.sample > 0 THEN <<"sample">>
                        ELSE <<>>)
    /\ IF loc.changed # 0 /\ args.sample > 0
       THEN /\ \E rows \in SampleResults(args.sample) :
                  result' = [result EXCEPT !.row_diff =
                      row_diff(loc.added, loc.removed, loc.changed, rows)]
            /\ queries' = Append(queries, "sample")
       ELSE /\ result' = [result EXCEPT !.row_diff =
                      row_diff(loc.added, loc.removed, loc.changed, <<>>)]
            /\ queries' = queries
    /\ pc' = "cleanup"
    /\ outcome' = "returned"
    /\ UNCHANGED <<args, faults, fs, error, caller, wh, loc>>

\* finally: git worktree remove of one side, its failure passed over
RemoveWorktree(side, at, next) ==
    /\ pc = at
    /\ steps' = Append(steps, "remove_" \o side)
    /\ fs' = IF Fails("remove_" \o side) THEN fs ELSE [fs EXCEPT ![side] = FALSE]
    /\ pc' = next
    /\ UNCHANGED <<args, faults, error, caller, wh, loc, result, outcome, queries>>

\* shutil.rmtree(tmp_dir, ignore_errors=True)
RemoveTmp ==
    /\ pc = "rmtree"
    /\ steps' = Append(steps, "rmtree")
    /\ fs' = IF Fails("rmtree") THEN fs
             ELSE [tmp |-> FALSE, base |-> FALSE, head |-> FALSE]
    /\ pc' = "drop_schema"
    /\ UNCHANGED <<args, faults, error, caller, wh, loc, result, outcome, queries>>

\* drop schema if exists ... cascade
drop_schema(w) ==
    [w EXCEPT !.schema = FALSE, !.rel["base"] = Absent, !.rel["head"] = Absent]

DropSchema_OnReturnOnly ==
    /\ pc = "drop_schema"
    /\ steps' = steps \o (IF args.keep_schemas \/ outcome # "returned" THEN <<>>
                        ELSE <<"drop_schema">>)
    /\ IF args.keep_schemas \/ outcome # "returned"
       THEN UNCHANGED <<wh, queries>>
       ELSE /\ wh' = IF Fails("drop_schema") THEN wh ELSE drop_schema(wh)
            /\ queries' = Append(queries, "drop_schema")
    /\ pc' = "close"
    /\ UNCHANGED <<args, faults, fs, error, caller, loc, result, outcome>>

\* if not keep_schemas: adapter.drop_schema, its failure passed over
DropSchema ==
    /\ pc = "drop_schema"
    /\ steps' = steps \o (IF args.keep_schemas THEN <<>> ELSE <<"drop_schema">>)
    /\ IF args.keep_schemas
       THEN UNCHANGED <<wh, queries>>
       ELSE /\ wh' = IF Fails("drop_schema") THEN wh ELSE drop_schema(wh)
            /\ queries' = Append(queries, "drop_schema")
    /\ pc' = "close"
    /\ UNCHANGED <<args, faults, fs, error, caller, loc, result, outcome>>

\* what leaves run_diff when the finally block ends normally: the value of
\* the return statement, or the exception of the try block
Pending == IF outcome = "returned" THEN [kind |-> "report", error |-> None]
           ELSE [kind |-> "error", error |-> error]

\* conn.close(), outside any try: its exception replaces what was pending
Close ==
    /\ pc = "close"
    /\ steps' = Append(steps, "close")
    /\ caller' = IF Fails("close")
                 THEN Some([kind |-> "error", error |-> Some("close")])
                 ELSE Some(Pending)
    /\ pc' = "done"
    /\ UNCHANGED <<args, faults, fs, error, wh, loc, result, outcome, queries>>

-----------------------------------------------------------------------------
(* build_row_hash_expr applied to two rows, on its own *)

HashRows ==
    /\ pc = "hash"
    /\ LET e == build_row_hash_expr(args.cols)
       IN  loc' = [expr |-> e,
                   input1 |-> HashInput(e, args.row1),
                   input2 |-> HashInput(e, args.row2),
                   reordered1 |-> HashInput(build_row_hash_expr(args.other),
                                            args.row1)]
    /\ pc' = "hashed"
    /\ UNCHANGED <<args, faults, fs, error, caller, wh, result, outcome, queries,
                   steps>>

-----------------------------------------------------------------------------
(* the names of two runs started in the same warehouse *)

DeriveNames ==
    /\ pc = "names"
    /\ loc' = [run1 |-> RunNames(args.run1), run2 |-> RunNames(args.run2)]
    /\ pc' = "named"
    /\ UNCHANGED <<args, faults, fs, error, caller, wh, result, outcome, queries,
                   steps>>

-----------------------------------------------------------------------------
(* the SQL text run_diff and the adapter compose *)

\* the identifiers written into the statements run_diff composes
\* join_on: b.<k> = h.<k> for every key
join_on_sql(key_cols) == Flatten([i \in 1..Len(key_cols) |-> <<Q(key_cols[i]), Q(key_cols[i])>>])

\* using_clause, and the key list of base_h and head_h
keys_sql(key_cols) == [i \in 1..Len(key_cols) |-> Q(key_cols[i])]

added_sql(head, base, key_cols) ==
    head \o base \o join_on_sql(key_cols) \o <<Q(key_cols[1])>>

removed_sql(base, head, key_cols) ==
    base \o head \o join_on_sql(key_cols) \o <<Q(key_cols[1])>>

changed_sql(base, head, key_cols, hash_cols) ==
    keys_sql(key_cols) \o build_row_hash_expr_sql(hash_cols) \o base
        \o keys_sql(key_cols) \o build_row_hash_expr_sql(hash_cols) \o head
        \o keys_sql(key_cols)

sample_sql(base, head, key_cols, hash_cols) ==
    keys_sql(key_cols) \o build_row_hash_expr_sql(hash_cols) \o base
        \o keys_sql(key_cols) \o build_row_hash_expr_sql(hash_cols) \o head
        \o keys_sql(key_cols) \o keys_sql(key_cols)

\* every statement of one run: a the inputs, n the names of the run
Statements(a, n) ==
    LET base == rel_sql(n.diff_schema, n.base_table)
        head == rel_sql(n.diff_schema, n.head_table)
        common == <<a.key, a.col>>
        keys == <<a.key>>
        hashed == non_key_cols(common, keys)
    IN  [ensure_schema |-> ensure_schema_sql(n.diff_schema),
         ctas_copy_base |-> ctas_copy_sql(a.src.schema, a.src.table,
                                          n.diff_schema, n.base_table),
         ctas_copy_head |-> ctas_copy_sql(a.src.schema, a.src.table,
                                          n.diff_schema, n.head_table),
         rowcount_base |-> base,
         rowcount_head |-> head,
         list_columns |-> list_columns_sql(n.diff_schema, n.head_table),
         column_profile_base |-> column_profile_sql(n.diff_schema, n.base_table, common),
         column_profile_head |-> column_profile_sql(n.diff_schema, n.head_table, common),
         added |-> added_sql(head, base, keys),
         removed |-> removed_sql(base, head, keys),
         changed |-> changed_sql(base, head, keys, hashed),
         sample |-> sample_sql(base, head, keys, hashed),
         drop_schema |-> drop_schema_sql(n.diff_schema)]

\* the SQL text of one run, for the names it is given
GenerateSQL ==
    /\ pc = "sql"
    /\ loc' = [names |-> RunNames(args.run),
               sql |-> Statements(args, RunNames(args.run))]
    /\ pc' = "generated"
    /\ UNCHANGED <<args, faults, fs, error, caller, wh, result, outcome, queries,
                   steps>>

-----------------------------------------------------------------------------
(* the row diff of two snapshots and of the same snapshots exchanged *)

\* the counts run_diff reports for base snapshot B and head snapshot H:
\* common_cols in head order, non_key_cols, the one hash expression used for
\* both sides, and the added, removed and changed queries
row_diff_counts(B, H, key_cols, where) ==
    LET common == schema_diff(list_columns(H), list_columns(B)).common
        expr == build_row_hash_expr(non_key_cols(common, key_cols))
    IN  [added |-> added_count(Sub(H, where), Sub(B, where), key_cols),
         removed |-> removed_count(Sub(B, where), Sub(H, where), key_cols),
         changed |-> Cardinality(ChangedPairs(Sub(B, where), Sub(H, where),
                                              key_cols, expr, expr))]

\* one run over (base, head) and one over (head, base)
ExchangedRuns ==
    /\ pc = "exchange"
    /\ loc' = [run |-> row_diff_counts(args.base, args.head,
                                       args.key_cols, args.where),
               exchanged |-> row_diff_counts(args.head, args.base,
                                             args.key_cols, args.where)]
    /\ pc' = "exchanged"
    /\ UNCHANGED <<args, faults, fs, error, caller, wh, result, outcome, queries,
                   steps>>

-----------------------------------------------------------------------------
(* core/dbt_profiles.py: load_conn_info_and_type *)

\* profiles.yml is described by what it is (absent, malformed YAML, empty, a
\* scalar, a mapping) and, for a mapping, by its profile names, the shape of
\* a profile, its outputs and default target, and the fields of an output.
\* An exception of the function is named by its class.
Raised(kind) ==
    [kind |-> kind, adapter_type |-> "",
     info |-> [type |-> "", host |-> "", user |-> "", port |-> 0]]

\* if not profile: DBT_PROFILE, else the only profile, else none ("?")
resolve_profile(f, profile, env) ==
    IF profile # "" THEN profile
    ELSE IF env # None THEN env[1]
    ELSE IF Cardinality(f.names) = 1 THEN CHOOSE n \in f.names : TRUE
    ELSE "?"

\* if not target: target = prof.get("target")
resolve_target(f, target) == IF target # "" THEN target ELSE f.default

\* int(out.get("port", 5432))
port_of(f) == IF f.port = "missing" THEN 5432 ELSE 5439

load_conn_info_and_type(f, profile, target, env) ==
    IF f.file = "absent" THEN Raised("FileNotFoundError")
    ELSE IF f.file = "malformed" THEN Raised("YAMLError")
    ELSE IF f.file # "mapping" \/ f.names = {} THEN Raised("ValueError")
    ELSE IF profile = "" /\ env = None /\ Cardinality(f.names) # 1
    THEN Raised("ValueError")
    ELSE IF resolve_profile(f, profile, env) \notin f.names \/ f.prof # "mapping"
    THEN Raised("ValueError")
    ELSE IF f.outputs # "mapping" \/ f.targets = {} THEN Raised("ValueError")
    ELSE IF resolve_target(f, target) = "" THEN Raised("ValueError")
    ELSE IF resolve_target(f, target) \notin f.targets \/ f.out # "mapping"
    THEN Raised("ValueError")
    ELSE IF f.type \notin {"postgres", "redshift"} THEN Raised("ValueError")
    ELSE IF ~f.host THEN Raised("KeyError")
    ELSE IF ~f.user THEN Raised("KeyError")
    ELSE IF f.port = "text" THEN Raised("ValueError")
    ELSE [kind |-> "ok", adapter_type |-> f.type,
          info |-> [type |-> f.type, host |-> "host", user |-> "user",
                    port |-> port_of(f)]]

\* one call of load_conn_info_and_type; it sends nothing to a warehouse
LoadConnInfo ==
    /\ pc = "load"
    /\ loc' = load_conn_info_and_type(args.f, args.profile, args.target, args.env)
    /\ pc' = "loaded"
    /\ UNCHANGED <<args, faults, fs, error, caller, wh, result, outcome, queries,
                   steps>>

-----------------------------------------------------------------------------
(* ctas_copy applied twice to a destination that may exist already *)

\* one call of adapter.ctas_copy into the base snapshot; a source that does
\* not exist fails the create statement, after the drop
CtasCopy(at, next) ==
    /\ pc = at
    /\ queries' = Append(queries, "ctas_copy")
    /\ IF ~wh.rel["src"].exists
       THEN /\ wh' = drop_table_if_exists(wh, "base")
            /\ error' = Some("ctas_copy")
            /\ pc' = "done"
            /\ UNCHANGED loc
       ELSE /\ wh' = ctas_copy(wh, "src", "base")
            /\ loc' = Append(loc, ctas_copy(wh, "src", "base"))
            /\ pc' = next
            /\ UNCHANGED error
    /\ UNCHANGED <<args, faults, fs, result, outcome, caller, steps>>

-----------------------------------------------------------------------------
(* The runs explored: what the caller passes and what the builds leave *)

\* rows of one model output
MaxRows == 2

\* largest sample limit passed
MaxSample == 1

\* columns of one model output, when the column lists vary
MaxCols == 3

\* rows the head revision adds in the end-to-end scenario
MaxExtra == 2

\* steps that fail in one run
MaxFaults == 2

\* characters of the longest model name
MaxModelLen == 61

\* characters of the longest column name
MaxIdent == 2

\* rows of a snapshot in the runs compared with their exchange
MaxSwapRows == 1

\* profiles of a profiles.yml
MaxProfiles == 2

IdVals == <<NULL, Txt("1"), Txt("2")>>

NameVals == <<NULL, Txt("a"), Txt("<NULL>")>>

\* every row over (id, name), numbered
RowU ==
    [k \in 1..(Len(IdVals) * Len(NameVals)) |->
        [c \in {"id", "name"} |->
            IF c = "id" THEN IdVals[((k - 1) \div Len(NameVals)) + 1]
            ELSE NameVals[((k - 1) % Len(NameVals)) + 1]]]

\* the bags of n rows, each listed once (a table's row order is no part of it)
RowBags(n) ==
    {[i \in 1..n |-> RowU[f[i]]] :
        f \in {g \in [1..n -> 1..Len(RowU)] :
                  \A i \in 1..(n - 1) : g[i] <= g[i + 1]}}

\* model outputs with columns (id, name) and at most MaxRows rows
RowTables ==
    {Table(<<TextCol("id"), TextCol("name")>>, rows) :
        rows \in UNION {RowBags(n) : n \in 0..MaxRows}}

RowArgs ==
    [key_cols : {<<"id">>}, where : {None, Pred("id", "1")},
     sample : {MaxSample}, keep_schemas : {FALSE}, col_stats : BOOLEAN]
    \cup
    [key_cols : {<<>>, <<"id">>, <<"id", "name">>}, where : {None},
     sample : {0}, keep_schemas : {FALSE}, col_stats : {FALSE}]

ColUniverse ==
    {TextCol("id"), TextCol("name"), TextCol("email"), TextCol("phone"),
     BoolCol("flag")}

\* the column lists of 1..MaxCols distinct columns
ColLists ==
    {s \in UNION {[1..n -> ColUniverse] : n \in 1..MaxCols} :
        \A i, j \in 1..Len(s) : i # j => s[i].name # s[j].name}

\* model outputs of one row, over every column list
ColTables ==
    {Table(cols, <<[c \in Range([i \in 1..Len(cols) |-> cols[i].name]) |-> Txt("1")]>>) :
        cols \in ColLists}

ColArgs ==
    [key_cols : {<<>>, <<"id">>, <<"name", "id">>}, where : {None},
     sample : {MaxSample}, keep_schemas : {FALSE}, col_stats : BOOLEAN]

\* tests/integration/test_postgres_e2e.py: dim_customers under main
E2ERow(k, n) ==
    [c \in {"customer_id", "name"} |-> IF c = "customer_id" THEN Txt(k) ELSE Txt(n)]

E2ECols == <<TextCol("customer_id"), TextCol("name")>>

E2EBaseRows == <<E2ERow("1", "Alice"), E2ERow("2", "Bob"), E2ERow("3", "Chandra")>>

\* the i-th row a head revision adds; the first is the test's (4, 'Deepak')
E2EExtraRow(i) ==
    E2ERow(ToString(3 + i), IF i = 1 THEN "Deepak" ELSE "N" \o ToString(3 + i))

E2EHeads ==
    {Table(E2ECols, E2EBaseRows \o [i \in 1..n |-> E2EExtraRow(i)]) : n \in 0..MaxExtra}

E2EArgs ==
    [key_cols : {<<>>, <<"customer_id">>},
     where : {None, Pred("customer_id", "4")},
     sample : 0..MaxSample, keep_schemas : BOOLEAN, col_stats : BOOLEAN]

Rep(c, n) == [i \in 1..n |-> c]

\* model names: short ones, and long ones around the truncation length
ModelNames ==
    {<<"m">>, <<"M">>, <<"m", "_", "a">>}
        \cup {Rep("m", n) : n \in (MaxModelLen - 1)..MaxModelLen}

\* revision names: branches and tags with the usual separators
RefNames ==
    {<<"a">>, <<"b">>, <<"a", "_", "b">>, <<"a", "-", "b">>, <<"a", "/", "-", "b">>}

RunTriples == [model : ModelNames, base_ref : RefNames, head_ref : RefNames]

NameArgs == [run1 : RunTriples, run2 : RunTriples]

\* identifiers of 1..MaxIdent characters: a letter of either case, a double
\* quote, a space
IdentChars == {"a", "B", DQ, " "}

Idents == UNION {[1..n -> IdentChars] : n \in 1..MaxIdent}

\* the relations dbt reports for the model
SrcRels ==
    {[schema |-> <<"s">>, table |-> <<"m">>],
     [schema |-> <<"S", " ">>, table |-> <<"m", DQ>>]}

\* one run, the relation it copies, a key column and another column
QuoteArgs ==
    [run : [model : {<<"m">>, <<"M">>}, base_ref : {<<"a">>},
            head_ref : {<<"a", "-", "b">>}],
     src : SrcRels, key : Idents, col : Idents]

\* the relations a build may have left, or none
CopySrcs == {Absent} \cup ColTables \cup RowTables

\* what an earlier run may have left under the destination name
CopyPriors ==
    {Absent, Table(<<TextCol("id")>>, <<[c \in {"id"} |-> Txt("9")]>>),
     Table(E2ECols, E2EBaseRows)}

CopyArgs == [src : CopySrcs, prior : CopyPriors]

\* snapshots of at most MaxSwapRows rows with the key id and the columns x
\* and y, listed in either order
SwapRows ==
    [id : {Txt("1"), Txt("2")}, x : {Txt("a"), Txt("a|b")},
     y : {Txt("c"), Txt("b|c")}]

SwapColLists ==
    {<<TextCol("id"), TextCol("x"), TextCol("y")>>,
     <<TextCol("id"), TextCol("y"), TextCol("x")>>}

SwapTables ==
    {Table(cols, rows) :
        cols \in SwapColLists,
        rows \in UNION {[1..n -> SwapRows] : n \in 0..MaxSwapRows}}

SwapArgs ==
    [base : SwapTables, head : SwapTables, key_cols : {<<"id">>},
     where : {None, Pred("id", "1")}]

\* profiles.yml files that are no mapping
NoMapping ==
    [file : {"absent", "malformed", "empty", "scalar"}, names : {{}},
     prof : {"scalar"}, outputs : {"missing"}, targets : {{}}, default : {""},
     out : {"scalar"}, type : {""}, host : {FALSE}, user : {FALSE},
     port : {"missing"}]

\* profiles.yml files that are a mapping, of up to MaxProfiles profiles
Mappings ==
    [file : {"mapping"},
     names : {{Lowers[15 + i] : i \in 1..n} : n \in 0..MaxProfiles},
     prof : {"scalar", "mapping"}, outputs : {"missing", "scalar", "mapping"},
     targets : {{}, {"dev"}}, default : {"", "dev", "qa"},
     out : {"scalar", "mapping"},
     type : {"", "postgres", "redshift", "snowflake"},
     host : BOOLEAN, user : BOOLEAN, port : {"missing", "number", "text"}]

ProfileArgs ==
    [f : NoMapping \cup Mappings, profile : {"", "p", "r"},
     target : {"", "dev", "qa"}, env : {None, Some("q")}]

\* the steps that can fail for reasons outside the program
FaultSteps ==
    {"mkdtemp", "ensure_schema", "worktree_base", "worktree_head",
     "build_base", "resolve_base", "copy_base",
     "build_head", "resolve_head", "copy_head",
     "remove_base", "remove_head", "rmtree", "drop_schema", "close"}

\* the runs in which at most MaxFaults steps fail
FaultPlans == {F \in SUBSET FaultSteps : Cardinality(F) <= MaxFaults}

HashVals == {NULL, Txt("a"), Txt("<NULL>"), Txt("a|a"), Txt("|")}

HashRowSet == [{"x", "y"} -> HashVals]

HashColLists == {<<>>, <<"x">>, <<"x", "y">>, <<"y", "x">>}

\* a column list, the same columns in a second order, and two rows
HashArgs ==
    {a \in [cols : HashColLists, other : HashColLists,
            row1 : HashRowSet, row2 : HashRowSet] :
        Range(a.cols) = Range(a.other)}

Compare ==
    \/ RowCounts
    \/ ListColumns
    \/ ColumnProfile
    \/ StatsOnlyReturn
    \/ AddedQuery
    \/ RemovedQuery
    \/ ChangedQuery
    \/ SampleAndReturn

Cleanup ==
    \/ RemoveWorktree("base", "cleanup", "remove_head")
    \/ RemoveWorktree("head", "remove_head", "rmtree")
    \/ RemoveTmp
    \/ DropSchema
    \/ Close

Flow ==
    \/ MakeTmp
    \/ EnsureSchema
    \/ AddWorktrees
    \/ Resolve("base")
    \/ Resolve("head")
    \/ Copy("base", "build_head")
    \/ Copy("head", "rowcount")
    \/ Compare
    \/ Cleanup

\* runs over (id, name) outputs of every content
Init == InitWith(RowArgs, {{}})

Next ==
    \/ Build("base", RowTables)
    \/ Build("head", RowTables)
    \/ Flow

Spec == Init /\ [][Next]_vars

\* runs over outputs of every column list
InitCols == InitWith(ColArgs, {{}})

NextCols ==
    \/ Build("base", ColTables)
    \/ Build("head", ColTables)
    \/ Flow

SpecCols == InitCols /\ [][NextCols]_vars

\* runs of the end-to-end scenario
InitE2E == InitWith(E2EArgs, FaultPlans)

NextE2E ==
    \/ Build("base", {Table(E2ECols, E2EBaseRows)})
    \/ Build("head", E2EHeads)
    \/ Flow

SpecE2E == InitE2E /\ [][NextE2E]_vars

\* build_row_hash_expr on every column list and pair of rows
InitHash ==
    /\ args \in HashArgs
    /\ faults = {}
    /\ pc = "hash"
    /\ wh = [schema |-> FALSE, rel |-> [r \in Rels |-> Absent]]
    /\ fs = NoWorktrees
    /\ loc = None
    /\ result = None
    /\ outcome = "running"
    /\ error = None
    /\ caller = None
    /\ queries = <<>>
    /\ steps = <<"connect">>

NextHash == HashRows

SpecHash == InitHash /\ [][NextHash]_vars

\* the states outside run_diff: one input, nothing run yet
InitPure(A, at) ==
    /\ args \in A
    /\ faults = {}
    /\ pc = at
    /\ wh = [schema |-> FALSE, rel |-> [r \in Rels |-> Absent]]
    /\ fs = NoWorktrees
    /\ loc = None
    /\ result = None
    /\ outcome = "running"
    /\ error = None
    /\ caller = None
    /\ queries = <<>>
    /\ steps = <<"connect">>

\* the names of two runs, over every pair of (model, base, head)
InitNames == InitPure(NameArgs, "names")

NextNames == DeriveNames

SpecNames == InitNames /\ [][NextNames]_vars

\* the SQL text of a run, over every key and column name
InitQuote == InitPure(QuoteArgs, "sql")

NextQuote == GenerateSQL

SpecQuote == InitQuote /\ [][NextQuote]_vars

\* the row diff of two snapshots and of their exchange
InitSwap == InitPure(SwapArgs, "exchange")

NextSwap == ExchangedRuns

SpecSwap == InitSwap /\ [][NextSwap]_vars

\* load_conn_info_and_type before any connection is opened
InitProfiles ==
    /\ args \in ProfileArgs
    /\ faults = {}
    /\ pc = "load"
    /\ wh = [schema |-> FALSE, rel |-> [r \in Rels |-> Absent]]
    /\ fs = NoWorktrees
    /\ loc = None
    /\ result = None
    /\ outcome = "running"
    /\ error = None
    /\ caller = None
    /\ queries = <<>>
    /\ steps = <<>>

NextProfiles == LoadConnInfo

SpecProfiles == InitProfiles /\ [][NextProfiles]_vars

\* a warehouse holding what a build left and what an earlier run left
InitCopy ==
    /\ args \in CopyArgs
    /\ faults = {}
    /\ pc = "ctas_copy"
    /\ wh = [schema |-> TRUE,
             rel |-> [r \in Rels |-> IF r = "src" THEN args.src
                                     ELSE IF r = "base" THEN args.prior
                                     ELSE Absent]]
    /\ fs = NoWorktrees
    /\ loc = <<>>
    /\ result = None
    /\ outcome = "running"
    /\ error = None
    /\ caller = None
    /\ queries = <<>>
    /\ steps = <<"connect">>

NextCopy ==
    \/ CtasCopy("ctas_copy", "ctas_copy_again")
    \/ CtasCopy("ctas_copy_again", "copied")

SpecCopy == InitCopy /\ [][NextCopy]_vars

-----------------------------------------------------------------------------
(* Properties *)

\* run_diff has executed a return statement; the finally block has not begun
Returned == pc = "cleanup" /\ outcome = "returned"

\* ... with a row-level diff in the report
FullReturned == Returned /\ result.row_diff # None

KeysNonNull(rows, key_cols) ==
    \A i \in 1..Len(rows), k \in 1..Len(key_cols) : ~IsNull(rows[i][key_cols[k]])

KeysUnique(rows, key_cols) ==
    \A i, j \in 1..Len(rows) :
        i # j => KeyTuple(rows[i], key_cols) # KeyTuple(rows[j], key_cols)

\* the key columns identify the rows: no NULL key value, no key tuple twice
KeysIdentify(rows) ==
    KeysNonNull(rows, args.key_cols) /\ KeysUnique(rows, args.key_cols)

RemoveAt(s, i) == SubSeq(s, 1, i - 1) \o SubSeq(s, i + 1, Len(s))

Count(rows, r) == Cardinality({i \in 1..Len(rows) : rows[i] = r})

\* every row of a occurs in b at least as often
SubBag(a, b) == \A r \in Range(a) : Count(a, r) <= Count(b, r)

NoRowDiff ==
    /\ result.row_diff.added = 0
    /\ result.row_diff.removed = 0
    /\ result.row_diff.changed = 0

\* C1 as claimed: when the base and head snapshots have the same column list
\* and the same rows, the row diff is added = removed = changed = 0 for every
\* non-empty key list, whether or not the keys are unique or non-NULL.
C1_AnyKeys == FullReturned /\ base_rel = head_rel => NoRowDiff

\* C1 as amended: when the base and head snapshots have the same column list
\* and the same rows, and the key columns hold no NULL and identify the
\* compared rows uniquely, the row diff is added = removed = changed = 0.
C1_IdenticalSnapshots ==
    FullReturned /\ base_rel = head_rel /\ KeysIdentify(base_sub) => NoRowDiff

C1_Witness ==
    /\ FullReturned
    /\ base_rel = head_rel
    /\ KeysIdentify(base_sub)
    /\ Len(base_sub) = 2

\* the compared head relation is the compared base relation less one row
OneRowRemoved ==
    /\ base_rel.cols = head_rel.cols
    /\ \E i \in 1..Len(base_sub) : head_sub = RemoveAt(base_sub, i)

\* C2 as claimed: when head is base with exactly one row removed, removed = 1
\* and added = 0 for every non-empty key list.
C2_AnyKeys ==
    FullReturned /\ OneRowRemoved =>
        result.row_diff.removed = 1 /\ result.row_diff.added = 0

\* C2 as amended: when head is base with exactly one row removed and the key
\* columns hold no NULL and identify the base rows uniquely, removed = 1 and
\* added = 0, whatever the value of changed.
C2_OneRowRemoved ==
    FullReturned /\ OneRowRemoved /\ KeysIdentify(base_sub) =>
        result.row_diff.removed = 1 /\ result.row_diff.added = 0

C2_Witness ==
    /\ FullReturned
    /\ OneRowRemoved
    /\ KeysIdentify(base_sub)
    /\ Len(base_sub) = 2

\* the compared head relation is the compared base relation with the value of
\* one non-key column changed on exactly one row
OneValueChanged ==
    /\ base_rel.cols = head_rel.cols
    /\ \E i \in 1..Len(base_sub), j \in 1..Len(head_sub) :
        \E c \in ColNames(base_rel) \ Range(args.key_cols) :
            /\ RemoveAt(head_sub, j) = RemoveAt(base_sub, i)
            /\ head_sub[j][c] # base_sub[i][c]
            /\ head_sub[j] = [base_sub[i] EXCEPT ![c] = head_sub[j][c]]

\* C3: when head is base with the value of one non-key column changed on
\* exactly one row (a change between NULL and a non-NULL value included), the
\* row diff is changed = 1, added = 0, removed = 0.  Stated for key columns
\* that hold no NULL and identify the rows uniquely.
C3_OneValueChanged ==
    FullReturned /\ OneValueChanged /\ KeysIdentify(base_sub) =>
        /\ result.row_diff.changed = 1
        /\ result.row_diff.added = 0
        /\ result.row_diff.removed = 0

\* the values a row holds in the columns of a list, in the list's order
ValueSeq(cols, row) == [i \in 1..Len(cols) |-> row[cols[i]]]

\* C4: the hash input build_row_hash_expr(C) yields is the same for two rows
\* iff the rows agree on every column of C, and the same row gives another
\* hash input when its values are supplied in another column order.
C4_HashInputInjective ==
    pc = "hashed" =>
        /\ loc.input1 = loc.input2 <=>
               ValueSeq(args.cols, args.row1) = ValueSeq(args.cols, args.row2)
        /\ ValueSeq(args.cols, args.row1) # ValueSeq(args.other, args.row1) =>
               loc.input1 # loc.reordered1

\* C5: when the head relation holds every base row unchanged plus n rows with
\* new keys (keys unique and non-NULL), rowcounts.base = |base|,
\* rowcounts.head = |base| + n, added = n, removed = 0 and changed = 0.  The
\* relations are the snapshots as compared, after the where predicate.
C5_ExtraRows ==
    FullReturned /\ base_rel.cols = head_rel.cols /\ SubBag(base_sub, head_sub)
                 /\ KeysIdentify(head_sub) =>
        LET n == Len(head_sub) - Len(base_sub) IN
        /\ result.rowcounts.base = Len(base_sub)
        /\ result.rowcounts.head = Len(base_sub) + n
        /\ result.row_diff.added = n
        /\ result.row_diff.removed = 0
        /\ result.row_diff.changed = 0

C5_Witness ==
    /\ FullReturned
    /\ base_rel.cols = head_rel.cols
    /\ SubBag(base_sub, head_sub)
    /\ KeysIdentify(head_sub)
    /\ Len(base_sub) = 1
    /\ Len(head_sub) = 2

\* the test's scenario: base (1,Alice),(2,Bob),(3,Chandra), head the same rows
\* and (4,Deepak), keyed on the first column, a sample limit above 0
E2EScenario ==
    /\ base_rel = Table(E2ECols, E2EBaseRows)
    /\ head_rel = Table(E2ECols, Append(E2EBaseRows, E2ERow("4", "Deepak")))
    /\ args.key_cols = <<"customer_id">>
    /\ args.sample > 0

\* C6 as claimed: in the end-to-end scenario the sample of keys in the
\* report's row_diff contains key 4.
C6_SampleHasKey4 ==
    FullReturned /\ E2EScenario =>
        <<Txt("4")>> \in Range(result.row_diff.sample_keys)

\* C6 as amended: in the end-to-end scenario the sample of keys is empty,
\* because it is drawn from the changed keys and changed = 0; key 4 is
\* counted in added (rowcounts 3 and 4, added = 1, removed = 0 when no where
\* predicate is given).
C6_SampleOfChangedOnly ==
    FullReturned /\ E2EScenario =>
        /\ result.row_diff.sample_keys = <<>>
        /\ result.row_diff.changed = 0
        /\ args.where = None =>
              /\ result.rowcounts = [base |-> 3, head |-> 4]
              /\ result.row_diff.added = 1
              /\ result.row_diff.removed = 0

C6_Witness == FullReturned /\ E2EScenario /\ args.where = None

\* xs holds members of ys, in the order ys lists them
InOrderOf(xs, ys) == xs = Keep(ys, Range(xs))

\* C7: for the column listings base_cols and head_cols, common and
\* only_in_head cover exactly head_cols, common and only_in_base cover exactly
\* base_cols, the three lists are pairwise disjoint, common and only_in_head
\* keep the order of head_cols and only_in_base that of base_cols; for equal
\* listings only_in_head = only_in_base = [] and common is the full list.
C7_SchemaDiff ==
    pc = "profile" \/ Returned =>
        LET sd == result.schema_diff
            hc == loc.head_cols
            bc == loc.base_cols
        IN  /\ Range(sd.common) \cup Range(sd.only_in_head) = Range(hc)
            /\ Len(sd.common) + Len(sd.only_in_head) = Len(hc)
            /\ Range(sd.common) \cup Range(sd.only_in_base) = Range(bc)
            /\ Len(sd.common) + Len(sd.only_in_base) = Len(bc)
            /\ Range(sd.common) \cap Range(sd.only_in_head) = {}
            /\ Range(sd.common) \cap Range(sd.only_in_base) = {}
            /\ Range(sd.only_in_head) \cap Range(sd.only_in_base) = {}
            /\ InOrderOf(sd.common, hc)
            /\ InOrderOf(sd.only_in_head, hc)
            /\ InOrderOf(sd.only_in_base, bc)
            /\ hc = bc => /\ sd.only_in_head = <<>>
                          /\ sd.only_in_base = <<>>
                          /\ sd.common = hc

C7_Witness ==
    /\ pc = "profile"
    /\ result.schema_diff.common # <<>>
    /\ result.schema_diff.only_in_head # <<>>
    /\ result.schema_diff.only_in_base # <<>>
    /\ ~InOrderOf(result.schema_diff.common, loc.base_cols)

\* the columns a hash expression reads, in the order it reads them
HashCols(expr) ==
    LET terms == SelectSeq(expr.md5, LAMBDA t : t.kind = "coalesce")
    IN  [i \in 1..Len(terms) |-> terms[i].col]

\* the hash expressions have been built and the snapshots still exist
HashesBuilt == pc \in {"removed", "changed", "sample"} \/ FullReturned

\* C8: in every full diff the columns given to build_row_hash_expr are the
\* common columns that are not key columns, in head column order, the same
\* for the base side and the head side; a key column and a column of only one
\* snapshot never contribute to the hash.
C8_HashColumns ==
    HashesBuilt =>
        /\ loc.non_key_cols =
               SelectSeq(loc.head_cols,
                         LAMBDA c : c \in Range(loc.base_cols)
                                    /\ c \notin Range(args.key_cols))
        /\ HashCols(loc.base_hash) = loc.non_key_cols
        /\ loc.head_hash = loc.base_hash
        /\ Range(HashCols(loc.base_hash)) \cap Range(args.key_cols) = {}
        /\ Range(HashCols(loc.base_hash))
               \subseteq ColNames(base_rel) \cap ColNames(head_rel)

\* base {id, name}, head {id, name, email}, key id: only name is hashed
C8_Witness ==
    /\ pc = "removed"
    /\ loc.base_cols = <<"id", "name">>
    /\ loc.head_cols = <<"id", "name", "email">>
    /\ args.key_cols = <<"id">>
    /\ HashCols(loc.base_hash) = <<"name">>

Sides == {"base", "head"}

\* a percentage lies in [0, 100]
IsPercent(f) == 0 <= f.num /\ f.num <= 100 * f.den

\* C9: in every report, for every profiled column and each side,
\* 0 <= nulls <= rowcounts[side] and 0 <= distinct <= rowcounts[side], and
\* null_pct and uniq_pct lie in [0, 100], for every where predicate.
C9_ProfileWithinRowcount ==
    Returned =>
        \A c \in DOMAIN result.column_profile, s \in Sides :
            LET p == result.column_profile[c][s] IN
            /\ 0 <= p.nulls /\ p.nulls <= result.rowcounts[s]
            /\ 0 <= p.distinct /\ p.distinct <= result.rowcounts[s]
            /\ IsPercent(p.null_pct)
            /\ IsPercent(p.uniq_pct)

\* the fraction f is 0.0 when d = 0 and 100 * n / d otherwise
IsPctOf(f, n, d) ==
    IF d = 0 THEN f.num = 0 ELSE f.num * d = 100 * n * f.den

\* C10: pct(n, 0) is 0.0, pct(n, d) is 100 * n / d for d > 0, and each side's
\* null_pct and uniq_pct are taken over that side's own row count.
C10_PctOverOwnCount ==
    Returned =>
        \A c \in DOMAIN result.column_profile, s \in Sides :
            LET p == result.column_profile[c][s] IN
            /\ IsPctOf(p.null_pct, p.nulls, result.rowcounts[s])
            /\ IsPctOf(p.uniq_pct, p.distinct, result.rowcounts[s])

C10_Witness ==
    /\ Returned
    /\ result.rowcounts.base = 0
    /\ result.rowcounts.head > 0
    /\ \E c \in DOMAIN result.column_profile :
           /\ result.column_profile[c].base.nulls > 0
           /\ result.column_profile[c].head.distinct > 0

\* the pairs of compared rows the changed query joins
JoinedPairs ==
    {p \in (1..Len(base_sub)) \X (1..Len(head_sub)) :
        KeysEqual(base_sub[p[1]], head_sub[p[2]], args.key_cols)}

\* C11: when every common column is a key column, build_row_hash_expr gives
\* the fixed expression md5('') for both sides and the report has changed = 0
\* for every pair of row sets, those with duplicate keys included.
C11_NoNonKeyColumns ==
    HashesBuilt /\ Range(loc.common_cols) \subseteq Range(args.key_cols) =>
        /\ loc.non_key_cols = <<>>
        /\ loc.base_hash = [md5 |-> <<Lit("")>>]
        /\ loc.head_hash = [md5 |-> <<Lit("")>>]
        /\ \A i \in 1..Len(base_sub) : HashInput(loc.base_hash, base_sub[i]) = ""
        /\ pc = "sample" \/ FullReturned => loc.changed = 0
        /\ FullReturned => result.row_diff.changed = 0

\* duplicate keys on both sides: four joined pairs, none counted as changed
C11_Witness ==
    /\ FullReturned
    /\ loc.non_key_cols = <<>>
    /\ loc.common_cols # <<>>
    /\ ~KeysUnique(base_sub, args.key_cols)
    /\ Cardinality(JoinedPairs) = 4
    /\ result.row_diff.changed = 0

\* how many times a query has been sent to the warehouse
QueryCount(q) == Cardinality({i \in 1..Len(queries) : queries[i] = q})

\* the key tuples present on both sides whose row hashes differ
ChangedKeys ==
    {KeyTuple(base_sub[p[1]], args.key_cols) :
        p \in {j \in JoinedPairs :
                  RowHash(build_row_hash_expr(loc.non_key_cols), base_sub[j[1]])
                      # RowHash(build_row_hash_expr(loc.non_key_cols), head_sub[j[2]])}}

\* C12: in every full diff sample_keys holds at most `sample` key tuples, each
\* of the changed set; when changed = 0 or the limit is 0 no sample query is
\* sent and sample_keys is empty, otherwise exactly one sample query is sent,
\* and it follows the changed query.
C12_SampleKeys ==
    FullReturned =>
        LET sk == result.row_diff.sample_keys IN
        /\ Len(sk) <= args.sample
        /\ Range(sk) \subseteq ChangedKeys
        /\ IF result.row_diff.changed = 0 \/ args.sample = 0
           THEN QueryCount("sample") = 0 /\ sk = <<>>
           ELSE /\ QueryCount("sample") = 1
                /\ queries[Len(queries)] = "sample"
                /\ queries[Len(queries) - 1] = "changed"

\* more changed pairs than the limit allows to sample
C12_Witness ==
    /\ FullReturned
    /\ result.row_diff.changed > args.sample
    /\ args.sample > 0
    /\ Len(result.row_diff.sample_keys) = args.sample

\* runs of the end-to-end scenario that keep taking steps until run_diff ends
FairE2E == SpecE2E /\ WF_vars(NextE2E)

\* the disposable schema has been ensured and the run goes on
SchemaEnsured == pc = "worktrees"

\* the state the disposable schema is left in when run_diff has ended
SchemaReleased ==
    IF args.keep_schemas
    THEN /\ QueryCount("drop_schema") = 0
         /\ wh.schema
         /\ outcome = "returned" => base_rel.exists /\ head_rel.exists
    ELSE /\ QueryCount("drop_schema") = 1
         /\ ~Fails("drop_schema") =>
                ~wh.schema /\ ~base_rel.exists /\ ~head_rel.exists

C14_CleanupKeepsOutcome ==
    pc = "done" =>
        /\ outcome = "returned" => caller = Some([kind |-> "report", error |-> None])
        /\ outcome = "raised" => caller = Some([kind |-> "error", error |-> error])

\* the report holds everything a finished comparison puts in it
CompleteReport ==
    /\ DOMAIN result.rowcounts = {"base", "head"}
    /\ result.schema_diff = schema_diff(loc.head_cols, loc.base_cols)
    /\ QueryCount("rowcount") = 2 /\ QueryCount("list_columns") = 2
    /\ args.key_cols # <<>> =>
           /\ result.row_diff # None
           /\ DOMAIN result.row_diff = {"added", "removed", "changed", "sample_keys"}

\* C15: run_diff either raises an error or returns a complete report: a
\* returned report has both rowcounts, the computed schema diff and, when key
\* columns were supplied, a row_diff with added, removed, changed and
\* sample_keys; after a failed step the report is never returned.
C15_CompleteOrError ==
    /\ outcome = "returned" => CompleteReport /\ error = None
    /\ error # None => outcome = "raised"
    /\ caller # None /\ caller[1].kind = "report" =>
           outcome = "returned" /\ CompleteReport

\* a full diff handed to the caller, the failed schema drop passed over
C15_Witness ==
    /\ pc = "done"
    /\ caller = Some([kind |-> "report", error |-> None])
    /\ args.key_cols # <<>>
    /\ result.row_diff.added = 1
    /\ Fails("drop_schema")

RowDiffQueries == {"added", "removed", "changed", "sample"}

\* the comparison has listed the columns and a key column is not common
KeyNotCommon ==
    /\ QueryCount("list_columns") = 2
    /\ ~(Range(args.key_cols) \subseteq Range(loc.common_cols))

\* C16: when a supplied key column is not among the common columns of the two
\* snapshots, run_diff fails before sending any row-diff query (added,
\* removed, changed or sample) to the warehouse, and returns no report.
C16_KeysValidated ==
    KeyNotCommon =>
        /\ Range(queries) \cap RowDiffQueries = {}
        /\ outcome # "returned"

\* C17: two runs whose (model, base revision, head revision) combinations
\* differ get different disposable schema names, so that neither replaces or
\* drops a snapshot table of the other.
C17_DistinctSchemas ==
    pc = "named" /\ args.run1 # args.run2 =>
        loc.run1.diff_schema # loc.run2.diff_schema

LowerWordChars == Range(Lowers) \cup Range(Digits) \cup {"_"}

\* the identifier-length limit of Postgres, in characters
PgIdentLimit == 63

\* C18: sanitize_ident returns at most max_len (60) characters, all lowercase
\* letters, digits or underscores, and the schema and table names run_diff
\* derives from it stay within the identifier-length limit of Postgres (63).
C18_NamesWithinLimit ==
    pc = "named" =>
        /\ Len(loc.run1.run_id) <= max_len
        /\ Range(loc.run1.run_id) \subseteq LowerWordChars
        /\ Len(sanitize_ident(args.run1.model, max_len)) <= max_len
        /\ Range(sanitize_ident(args.run1.model, max_len)) \subseteq LowerWordChars
        /\ Len(loc.run1.diff_schema) <= PgIdentLimit
        /\ Len(loc.run1.base_table) <= PgIdentLimit
        /\ Len(loc.run1.head_table) <= PgIdentLimit

\* how many double quotes a name holds
QuoteCount(name) == Cardinality({i \in 1..Len(name) : name[i] = DQ})

\* every place of every statement where an identifier is written
Slots == UNION {Range(loc.sql[st]) : st \in DOMAIN loc.sql}

\* C19: quote_ident(name) is the name between double quotes with every
\* embedded double quote doubled, so that distinct names have distinct quoted
\* forms and reading the quoted form gives the name back; and every schema,
\* table, column and key-column name in the SQL text of run_diff and the
\* adapter is written in its quote_ident form.
C19_QuotedIdentifiers ==
    pc = "generated" =>
        /\ \A name \in {args.key, args.col} :
              LET quoted == quote_ident(name) IN
              /\ Head(quoted) = DQ /\ quoted[Len(quoted)] = DQ
              /\ Len(quoted) = Len(name) + QuoteCount(name) + 2
              /\ QuoteCount(quoted) = 2 * QuoteCount(name) + 2
              /\ ReadIdent(quoted) = Some(name)
        /\ args.key # args.col => quote_ident(args.key) # quote_ident(args.col)
        /\ \A slot \in Slots :
              /\ slot.text = quote_ident(slot.name)
              /\ ReadIdent(slot.text) = Some(slot.name)
        /\ {args.key, args.col, args.src.schema, args.src.table,
            loc.names.diff_schema, loc.names.base_table, loc.names.head_table}
               \subseteq {slot.name : slot \in Slots}

\* a key column whose name holds a double quote, in the join of the added
\* query
C19_Witness ==
    /\ pc = "generated"
    /\ args.key = <<"a", DQ>>
    /\ args.col = <<DQ, DQ>>
    /\ \E i \in 1..Len(loc.sql.added) :
          loc.sql.added[i] = [name |-> <<"a", DQ>>, text |-> <<DQ, "a", DQ, DQ, DQ>>]

\* the profile of a table is a mapping of exactly the requested columns, the
\* i-th column's counts read at the two result positions of that column
ProfileIsMapping(t, cols) ==
    /\ ~column_profile_raises(t, cols)
    /\ DOMAIN column_profile(t, cols) = Range(cols)
    /\ \A i \in 1..Len(cols) :
          /\ column_profile(t, cols)[cols[i]].nulls = ProfileRow(t, cols)[2 * i - 1][1]
          /\ column_profile(t, cols)[cols[i]].distinct = ProfileRow(t, cols)[2 * i][1]

\* the comparison has gone past column profiling
PastProfile == QueryCount("list_columns") = 2 /\ pc # "profile"

\* C20: column_profile with k >= 1 columns runs one query and returns a
\* mapping of exactly the k columns, the i-th column's nulls and distinct read
\* at that column's two result positions; with no column it runs no query
\* and returns the empty mapping; run_diff sends at most one profile query per
\* side, and none when col_stats is off or there is no common column.
C20_OneProfileQuery ==
    /\ column_profile(base_rel, <<>>) = <<>>
    /\ pc = "profile" /\ args.col_stats /\ loc.common_cols # <<>> =>
           /\ ProfileIsMapping(base_rel, loc.common_cols)
           /\ ProfileIsMapping(head_rel, loc.common_cols)
    /\ PastProfile =>
           /\ QueryCount("column_profile") <= 2
           /\ ~args.col_stats \/ loc.common_cols = <<>> =>
                  QueryCount("column_profile") = 0
           /\ args.col_stats /\ loc.common_cols # <<>> /\ outcome = "returned" =>
                  QueryCount("column_profile") = 2


-----------------------------------------------------------------------------
(* The order of the steps of a run *)

\* the steps of the try block that make the two snapshots, as the code
\* orders them
SnapshotSteps ==
    <<"ensure_schema", "build_base", "resolve_base", "copy_base",
      "build_head", "resolve_head", "copy_head">>

\* the steps that query the two snapshots
ComparisonSteps ==
    {"rowcount_base", "rowcount_head", "list_columns_head", "list_columns_base",
     "column_profile_base", "column_profile_head",
     "added", "removed", "changed", "sample"}

IsPrefix(a, b) == Len(a) <= Len(b) /\ a = SubSeq(b, 1, Len(a))

\* the positions of the log at which step x was started
At(x) == {i \in 1..Len(steps) : steps[i] = x}

Started(x) == At(x) # {}

\* x was started and did not fail
Completed(x) == Started(x) /\ ~Fails(x)

\* C21: the snapshot steps of a run are started in the order ensure_schema,
\* base build, base resolution, base copy, head build, head resolution, head
\* copy; a comparison query is started only after both copies completed; after
\* a build, resolution or copy that failed no snapshot or comparison step is
\* started; and the side whose build failed has no snapshot.
C21_StepOrder ==
    /\ IsPrefix(SelectSeq(steps, LAMBDA x : x \in Range(SnapshotSteps)),
                SnapshotSteps)
    /\ \A i \in 1..Len(steps) :
          steps[i] \in ComparisonSteps =>
              \A c \in {"copy_base", "copy_head"} :
                  Completed(c) /\ \A j \in At(c) : j < i
    /\ \A i \in 1..Len(steps) :
          steps[i] \in Range(SnapshotSteps) \ {"ensure_schema"} /\ Fails(steps[i]) =>
              \A j \in (i + 1)..Len(steps) :
                  steps[j] \notin Range(SnapshotSteps) \cup ComparisonSteps
    /\ \A side \in Sides :
          Started("build_" \o side) /\ Fails("build_" \o side) =>
              ~wh.rel[side].exists

\* a run that ended after the head build failed, the base copy made
C21_Witness ==
    /\ pc = "done"
    /\ Completed("copy_base")
    /\ Started("build_head") /\ Fails("build_head")
    /\ ~Started("resolve_head")


-----------------------------------------------------------------------------
(* The two modes of a run *)

\* C22: meta.mode is STATS_ONLY exactly when no key column was given and
\* FULL_DIFF otherwise; a STATS_ONLY run issues no added, removed, changed or
\* sample query and returns, after the schema diff and the column profiling,
\* with row_diff None; the row_diff a FULL_DIFF run returns has added, removed,
\* changed and sample_keys.
C22_Modes ==
    /\ result.meta.mode = (IF args.key_cols = <<>> THEN "STATS_ONLY" ELSE "FULL_DIFF")
    /\ result.meta.mode = "STATS_ONLY" =>
          /\ \A q \in RowDiffQueries : QueryCount(q) = 0
          /\ result.row_diff = None
          /\ outcome = "returned" =>
                /\ result.schema_diff = schema_diff(loc.head_cols, loc.base_cols)
                /\ QueryCount("list_columns") = 2
                /\ args.col_stats /\ loc.common_cols # <<>> =>
                      /\ QueryCount("column_profile") = 2
                      /\ DOMAIN result.column_profile = Range(loc.common_cols)
    /\ result.meta.mode = "FULL_DIFF" /\ outcome = "returned" =>
          /\ result.row_diff # None
          /\ DOMAIN result.row_diff = {"added", "removed", "changed", "sample_keys"}

\* a statistics-only run that returned with its columns profiled
C22_Witness ==
    /\ pc = "done"
    /\ outcome = "returned"
    /\ args.key_cols = <<>>
    /\ args.col_stats
    /\ QueryCount("column_profile") = 2


-----------------------------------------------------------------------------
(* ctas_copy *)

\* C24: after a ctas_copy that succeeded the destination has the columns of
\* the source, in the same order, and its rows, whatever was under the
\* destination name before; a second copy leaves the warehouse as the first
\* left it; the source is as it was.
C24_CopyReplaces ==
    /\ Len(loc) >= 1 =>
          /\ loc[1].rel["base"].exists
          /\ loc[1].rel["base"].cols = args.src.cols
          /\ loc[1].rel["base"].rows = args.src.rows
          /\ loc[1].rel["src"] = args.src
    /\ Len(loc) = 2 => loc[2] = loc[1]

\* copied twice over a table an earlier run left, of other columns
C24_Witness ==
    /\ pc = "copied"
    /\ args.prior.exists
    /\ args.prior.cols # args.src.cols
    /\ Len(args.src.cols) >= 2
    /\ wh.rel["base"] = args.src


-----------------------------------------------------------------------------
(* The changed count *)

\* the key tuples held by a row of each side whose values in the common
\* non-key columns differ between the two rows
KeysOfChangedValues ==
    {KeyTuple(base_sub[p[1]], args.key_cols) :
        p \in {j \in (1..Len(base_sub)) \X (1..Len(head_sub)) :
                  /\ KeyTuple(base_sub[j[1]], args.key_cols)
                         = KeyTuple(head_sub[j[2]], args.key_cols)
                  /\ ValueSeq(loc.non_key_cols, base_sub[j[1]])
                         # ValueSeq(loc.non_key_cols, head_sub[j[2]])}}

\* C25: the changed count of a full diff is the number of pairs of a base row
\* and a head row, both after the where predicate, whose keys are equal and
\* whose hashes over the common non-key columns differ, a pair counted for
\* itself when keys repeat; when the keys identify the rows of both sides it is
\* the number of key tuples on both sides whose common non-key values differ.
C25_ChangedCount ==
    FullReturned =>
        /\ result.row_diff.changed =
               Cardinality({p \in JoinedPairs :
                   RowHash(build_row_hash_expr(loc.non_key_cols), base_sub[p[1]])
                       # RowHash(build_row_hash_expr(loc.non_key_cols), head_sub[p[2]])})
        /\ KeysIdentify(base_sub) /\ KeysIdentify(head_sub) =>
               result.row_diff.changed = Cardinality(KeysOfChangedValues)


-----------------------------------------------------------------------------
(* The columns the schema diff reports *)

\* the column names of a table, in ordinal position
NamesOf(t) == [i \in 1..Len(t.cols) |-> t.cols[i].name]

\* C26: list_columns returns the columns of a snapshot in ordinal position,
\* and the schema diff puts every column of either snapshot, whatever its data
\* type, in exactly one of common, only_in_head and only_in_base: a column of
\* both snapshots in common, a column of head alone in only_in_head, a column
\* of base alone in only_in_base.
C26_EveryColumnClassified ==
    pc = "profile" \/ Returned =>
        LET sd == result.schema_diff
        IN  /\ loc.head_cols = NamesOf(head_rel)
            /\ loc.base_cols = NamesOf(base_rel)
            /\ \A c \in ColNames(head_rel) \cup ColNames(base_rel) :
                  /\ c \in Range(sd.common) <=>
                         c \in ColNames(head_rel) \cap ColNames(base_rel)
                  /\ c \in Range(sd.only_in_head) <=>
                         c \in ColNames(head_rel) \ ColNames(base_rel)
                  /\ c \in Range(sd.only_in_base) <=>
                         c \in ColNames(base_rel) \ ColNames(head_rel)


-----------------------------------------------------------------------------
(* The counts of a full diff against each other *)

\* the key tuples held by a row of each filtered side
CommonKeys ==
    {KeyTuple(base_sub[i], args.key_cols) : i \in 1..Len(base_sub)}
        \cap {KeyTuple(head_sub[j], args.key_cols) : j \in 1..Len(head_sub)}

\* C27: in a full diff whose keys are non-NULL and identify the rows of each
\* filtered side, head rowcount less added and base rowcount less removed are
\* both the number of keys on both sides, changed is at most that number,
\* added at most the head rowcount and removed at most the base rowcount.
C27_CountsBalance ==
    FullReturned /\ KeysIdentify(base_sub) /\ KeysIdentify(head_sub) =>
        LET rd == result.row_diff
            rc == result.rowcounts
        IN  /\ rc.head - rd.added = Cardinality(CommonKeys)
            /\ rc.base - rd.removed = Cardinality(CommonKeys)
            /\ rd.changed <= Cardinality(CommonKeys)
            /\ 0 <= rd.added /\ rd.added <= rc.head
            /\ 0 <= rd.removed /\ rd.removed <= rc.base

\* a full diff over a two-column key with a row added, a row removed and a
\* key on both sides
C27_Witness ==
    /\ FullReturned
    /\ KeysIdentify(base_sub) /\ KeysIdentify(head_sub)
    /\ Len(args.key_cols) = 2
    /\ result.row_diff.added = 1
    /\ result.row_diff.removed = 1
    /\ Cardinality(CommonKeys) = 1


-----------------------------------------------------------------------------
(* The profile of an empty snapshot *)

EmptySides == {s \in Sides : wh.rel[s].exists /\ wh.rel[s].rows = <<>>}

\* C29: for a snapshot with no rows and at least one requested column
\* column_profile raises no error and returns nulls = 0 and distinct = 0 for
\* every requested column, and a run with col_stats on that returned reports
\* null_pct = uniq_pct = 0 for every common column of an empty side.
C29_EmptySnapshotProfile ==
    /\ pc = "profile" /\ args.col_stats /\ loc.common_cols # <<>> =>
          \A s \in EmptySides :
              /\ ~column_profile_raises(wh.rel[s], loc.common_cols)
              /\ \A c \in Range(loc.common_cols) :
                    /\ column_profile(wh.rel[s], loc.common_cols)[c].nulls = 0
                    /\ column_profile(wh.rel[s], loc.common_cols)[c].distinct = 0
    /\ args.col_stats /\ loc.common_cols # <<>> /\ EmptySides # {} =>
          /\ error # Some("column_profile")
          /\ Returned =>
                \A s \in EmptySides, c \in Range(loc.common_cols) :
                    /\ result.column_profile[c][s].null_pct = Frac(0, 1)
                    /\ result.column_profile[c][s].uniq_pct = Frac(0, 1)


-----------------------------------------------------------------------------
(* The end of a run *)

\* the steps that send a statement over the connection
QuerySteps == ComparisonSteps \cup {"ensure_schema", "copy_base", "copy_head", "drop_schema"}

\* the cleanup of a run, in the order of the finally block
CleanupOrder ==
    IF args.keep_schemas
    THEN <<"remove_base", "remove_head", "rmtree", "close">>
    ELSE <<"remove_base", "remove_head", "rmtree", "drop_schema", "close">>

\* C30: once the connection is open every run closes it exactly once by the
\* time it ends; the cleanup is: remove the base worktree, remove the head
\* worktree (also when the base removal failed), remove the temp directory,
\* drop the schema unless it is kept, close the connection; and no statement
\* is sent after the close.
C30_ClosedOnce ==
    /\ Started("connect")
    /\ Cardinality(At("close")) <= 1
    /\ IsPrefix(SelectSeq(steps, LAMBDA x : x \in Range(CleanupOrder)), CleanupOrder)
    /\ pc = "done" =>
          /\ Cardinality(At("close")) = 1
          /\ SelectSeq(steps, LAMBDA x : x \in Range(CleanupOrder)) = CleanupOrder
    /\ \A i \in At("close") : \A j \in (i + 1)..Len(steps) : steps[j] \notin QuerySteps


-----------------------------------------------------------------------------
(* Base and head exchanged *)

\* C28: the run over the exchanged snapshots, with the same keys and the same
\* where predicate, reports as added what the run reports as removed, as
\* removed what it reports as added, and the same changed count, whatever the
\* order in which each snapshot lists the common columns.
C28_ExchangeSymmetry ==
    pc = "exchanged" =>
        /\ loc.exchanged.added = loc.run.removed
        /\ loc.exchanged.removed = loc.run.added
        /\ loc.exchanged.changed = loc.run.changed


-----------------------------------------------------------------------------
(* The configuration faults of profiles.yml *)

\* the profile and the target the call names, "?" and "" when it names none
NamedProfile ==
    IF args.profile # "" THEN args.profile
    ELSE IF args.env # None THEN args.env[1]
    ELSE IF Cardinality(args.f.names) = 1 THEN CHOOSE n \in args.f.names : TRUE
    ELSE "?"

NamedTarget == IF args.target # "" THEN args.target ELSE args.f.default

\* the first configuration fault of the call, "none" when there is none
ConfigFault ==
    LET f == args.f
    IN  IF f.file = "absent" THEN "absent"
        ELSE IF f.file # "mapping" \/ f.names = {} THEN "empty or invalid"
        ELSE IF NamedProfile = "?" THEN "profile ambiguous"
        ELSE IF NamedProfile \notin f.names \/ f.prof # "mapping"
        THEN "profile not found"
        ELSE IF f.outputs # "mapping" \/ f.targets = {} THEN "no outputs"
        ELSE IF NamedTarget = "" THEN "target missing"
        ELSE IF NamedTarget \notin f.targets \/ f.out # "mapping"
        THEN "target not found"
        ELSE IF f.type \notin {"postgres", "redshift"} THEN "type unsupported"
        ELSE IF ~f.host \/ ~f.user THEN "field missing"
        ELSE IF f.port = "text" THEN "port invalid"
        ELSE "none"

\* C23: load_conn_info_and_type opens no connection; it raises
\* FileNotFoundError when profiles.yml is absent and ValueError for every
\* other configuration fault (file empty or invalid, profile ambiguous or not
\* found, target missing or not found, adapter type unsupported, host or user
\* missing); without a fault it returns, the adapter type being the type of
\* the connection info.
C23_ConfigFaults ==
    /\ steps = <<>> /\ queries = <<>>
    /\ pc = "loaded" =>
          /\ ConfigFault = "absent" => loc.kind = "FileNotFoundError"
          /\ ConfigFault \notin {"absent", "none"} => loc.kind = "ValueError"
          /\ ConfigFault = "none" =>
                loc.kind = "ok" /\ loc.adapter_type = loc.info.type

=============================================================================
